---- MODULE Spec2Model ----
(***************************************************************************)
(* Batch-job orchestrator of the gateway: the start_job endpoint, the      *)
(* Temporal workflow ProcessJobWorkflow with its three activities, and the *)
(* BackgroundTasks fallback process_job, over one Job row and the          *)
(* Transaction table (Spec, and SpecFair with fair scheduling); the chunk  *)
(* planner of init_job_activity on its own (SpecPlanner); the transactions *)
(* endpoint over completed jobs (SpecListing); an activity attempt under   *)
(* its timeouts (SpecTimeouts); and the websocket ConnectionManager        *)
(* (SpecManager).                                                          *)
(***************************************************************************)
EXTENDS Integers, Sequences, FiniteSets, Bags, TLC

\* ------------------------------------------------------------------ bounds

\* start_job requests issued in one behaviour
MaxStarts == 2
\* activity attempts the environment makes fail (worker crash, timeout,
\* storage error) in one behaviour
MaxFaults == 3
\* the largest row count the planner is run on
MaxPlanRows == 1000
\* websockets that connect in one behaviour
MaxSockets == 2
\* broadcast_to_user calls in flight at a time
MaxBroadcasts == 2
\* Highest page number requested of the transactions endpoint.
MaxPage == 3
\* start_job requests before the transactions endpoint is exercised.
ListedStarts == 1
\* Clock ticks in a minute.
TicksPerMinute == 12

\* ------------------------------------------------------- program constants

\* RetryPolicy(maximum_attempts=3)
MaxAttempts == 3
\* max(100, min(batch_size, 5000))
MinBatchSize == 100
MaxBatchSize == 5000
\* target_chunk_mb = 2
TargetChunkMb == 2
\* 1024 * 1024
BytesPerMb == 1048576
\* BATCH = 100 of process_job
BATCH == 100
\* amount > 50000
SuspiciousAbove == 50000
\* client.post("/jobs/999999/start")
UnknownJobId == 999999

\* size: int = 20 of the transactions endpoint.
DefaultPageSize == 20
\* start_to_close_timeout=timedelta(minutes=5) of init_job_activity
InitStartToCloseMinutes == 5
\* start_to_close_timeout=timedelta(minutes=10) of process_chunk_activity
ChunkStartToCloseMinutes == 10
\* heartbeat_timeout=timedelta(minutes=2) of process_chunk_activity
ChunkHeartbeatMinutes == 2
\* start_to_close_timeout=timedelta(minutes=1) of complete_job_activity
CompleteStartToCloseMinutes == 1

\* ----------------------------------------------------------------- inputs

\* Row counts and file sizes in bytes given to the planner: from a header
\* alone to a gigabyte, so that rows of a few bytes, of a few kilobytes and
\* of tens of kilobytes all occur.
PlanRows == 0..MaxPlanRows
PlanSizes ==
  {40, 105, 4096, 65536, 419430, 1048576, 2097152, 4500040, 7500040,
   20971520, 30000000, 1073741824}

\* The user ids of the /ws/{user_id} paths, and the websockets.
Users == {1}
Sockets == 1..MaxSockets

\* ------------------------------------------------------------ uploaded CSV

\* The job ids that create_job has stored (status UPLOADED, counters 0).
JobIds == {1}

\* Uploaded files, by name.  "two" is the two-row sample of the tests; "wide"
\* and "badamt" have rows of about 30 kB, so that the planner's batch size is
\* the lower clamp and the file spans several chunks.
Files == {"empty", "two", "wide", "badamt"}

\* len(pd.read_csv(csv_path)): the number of data rows.
FileRows(f) ==
  CASE f = "empty" -> 0
    [] f = "two" -> 2
    [] f = "wide" -> 250
    [] f = "badamt" -> 150

\* os.path.getsize(csv_path), in bytes (header line included).
FileSize(f) ==
  CASE f = "empty" -> 40
    [] f = "two" -> 105
    [] f = "wide" -> 7500040
    [] f = "badamt" -> 4500040

\* The raw cells of data row i (0-based) of file f, as text.
Row(f, i) ==
  CASE f = "two" ->
         IF i = 0 THEN [timestamp |-> "2025-01-01T10:00:00", amount |-> "120.50"]
                  ELSE [timestamp |-> "2025-01-01T10:05:00", amount |-> "60000"]
    [] f = "wide" ->
         IF i < 100
           THEN [timestamp |-> "2025-01-01T10:00:00",
                 amount |-> IF i = 0 THEN "0" ELSE IF i = 1 THEN "50000" ELSE "120.50"]
         ELSE IF i < 200
           THEN [timestamp |-> "not-a-date",
                 amount |-> IF i % 2 = 0 THEN "60000" ELSE "120.50"]
           ELSE [timestamp |-> "2025-01-01T10:05:00", amount |-> "-100"]
    [] f = "badamt" ->
         [timestamp |-> IF i = 121 THEN "not-a-date" ELSE "2025-01-01T10:00:00",
          amount |-> IF i \in {120, 121} THEN "abc" ELSE "120.50"]
    [] OTHER -> [timestamp |-> "2025-01-01T10:00:00", amount |-> "120.50"]

\* ------------------------------------------------------------ row parsing

\* datetime.fromisoformat(str(row["timestamp"])) succeeds.
IsIsoTimestamp(s) == s \in {"2025-01-01T10:00:00", "2025-01-01T10:05:00"}

\* float(text) succeeds.
IsFloatText(s) == s \in {"120.50", "60000", "-100", "0", "50000"}

\* float(text), in hundredths.
FloatOf(s) ==
  CASE s = "120.50" -> 12050
    [] s = "60000" -> 6000000
    [] s = "-100" -> -10000
    [] s = "0" -> 0
    [] s = "50000" -> 5000000

IsSuspiciousAmountInclusive(a) == a <= 0 \/ a >= SuspiciousAbove * 100

\* float(row["amount"]) < 0 or float(row["amount"]) > 50000
IsSuspiciousAmount(a) == a < 0 \/ a > SuspiciousAbove * 100

\* One iteration of the row loop of process_chunk_activity: the flags of the
\* Transaction it builds.
ValidateRow(row) ==
  LET tsOk == IsIsoTimestamp(row.timestamp)
      amOk == IsFloatText(row.amount)
      error == IF ~tsOk THEN "Invalid timestamp"
               ELSE IF ~amOk THEN "Invalid amount" ELSE "none"
  IN [is_valid |-> tsOk /\ amOk,
      is_suspicious |-> amOk /\ IsSuspiciousAmount(FloatOf(row.amount)),
      amount |-> IF amOk THEN FloatOf(row.amount) ELSE 0,
      error_message |-> error]

\* pandas gives the amount column a numeric dtype only when every cell of the
\* file parses; otherwise every cell of the column is a str.
AmountColumnNumeric(f) ==
  \A i \in 0..(FileRows(f) - 1) : IsFloatText(Row(f, i).amount)

\* One iteration of the row loop of process_job; instOk is
\* isinstance(row["amount"], (int, float)).  raises: float() of the amount
\* cell throws ValueError, which nothing catches.
ValidateRowBackground(row, instOk) ==
  LET tsOk == IsIsoTimestamp(row.timestamp)
      raises == ~IsFloatText(row.amount)
  IN [raises |-> raises,
      is_valid |-> tsOk /\ instOk,
      is_suspicious |-> ~raises /\ IsSuspiciousAmount(FloatOf(row.amount)),
      amount |-> IF raises THEN 0 ELSE FloatOf(row.amount),
      error_message |-> IF ~instOk THEN "Invalid amount"
                        ELSE IF ~tsOk THEN "Invalid timestamp" ELSE "none"]

\* ----------------------------------------------------------- chunk planner

\* estimated_rows_per_mb = 2000
EstimatedRowsPerMb == 2000

\* max and min of Python
Max(a, b) == IF a >= b THEN a ELSE b
Min(a, b) == IF a <= b THEN a ELSE b

\* A planner that clamps from below only.
BatchSizeNoUpperClamp(total_records, file_size_bytes) ==
  Max(MinBatchSize, (TargetChunkMb * total_records * BytesPerMb) \div file_size_bytes)

\* A planner that takes the estimated density when there are no rows.
BatchSizeDefaultWhenEmpty(total_records, file_size_bytes) ==
  LET raw == IF file_size_bytes > 0 /\ total_records > 0
               THEN (TargetChunkMb * total_records * BytesPerMb) \div file_size_bytes
               ELSE TargetChunkMb * EstimatedRowsPerMb
  IN Max(MinBatchSize, Min(raw, MaxBatchSize))

\* The batch size init_job_activity computes from the row count and the file
\* size in bytes: int(target_chunk_mb * total_records / file_size_mb),
\* clamped.
BatchSize(total_records, file_size_bytes) ==
  LET raw == IF file_size_bytes > 0
               THEN (TargetChunkMb * total_records * BytesPerMb) \div file_size_bytes
               ELSE TargetChunkMb * EstimatedRowsPerMb
  IN Max(MinBatchSize, Min(raw, MaxBatchSize))

\* math.ceil(total_records / batch_size)
TotalBatches(total_records, batch_size) ==
  (total_records + batch_size - 1) \div batch_size

\* The JobInfo that init_job_activity returns for file f.
JobInfoOf(f) ==
  LET total == FileRows(f)
      size == BatchSize(total, FileSize(f))
  IN [total_records |-> total,
      batch_size |-> size,
      total_batches |-> TotalBatches(total, size)]

\* An end_row that is not cut at the end of the file.
ChunkEndUnclamped(chunk_index, batch_size, total_records) ==
  chunk_index * batch_size + batch_size

\* start_row and end_row of process_chunk_activity.
ChunkStart(chunk_index, batch_size) == chunk_index * batch_size
ChunkEnd(chunk_index, batch_size, total_records) ==
  Min(ChunkStart(chunk_index, batch_size) + batch_size, total_records)

\* The chunk-local tallies of process_chunk_activity over rows first..last-1.
RowTally(f, first, last) ==
  LET rows == first..(last - 1)
  IN [processed |-> Cardinality(rows),
      valid |-> Cardinality({i \in rows : ValidateRow(Row(f, i)).is_valid}),
      invalid |-> Cardinality({i \in rows : ~ValidateRow(Row(f, i)).is_valid}),
      suspicious |-> Cardinality({i \in rows : ValidateRow(Row(f, i)).is_suspicious})]

\* The same for one batch of process_job; raises when some row of the batch
\* makes float() throw, and then nothing of the batch is committed.
RowTallyBackground(f, first, last) ==
  LET rows == first..(last - 1)
      numeric == AmountColumnNumeric(f)
      v(i) == ValidateRowBackground(Row(f, i), numeric)
  IN [raises |-> \E i \in rows : v(i).raises,
      processed |-> Cardinality(rows),
      valid |-> Cardinality({i \in rows : v(i).is_valid}),
      invalid |-> Cardinality({i \in rows : ~v(i).is_valid}),
      suspicious |-> Cardinality({i \in rows : v(i).is_suspicious})]

\* The tallies of every chunk of every file, tabulated once: chunk_index ->
\* tally, for the planner's batch size and for process_job's BATCH.
ChunkTallies ==
  [f \in Files |->
     LET info == JobInfoOf(f)
     IN [c \in 0..(info.total_batches - 1) |->
           RowTally(f, ChunkStart(c, info.batch_size),
                    ChunkEnd(c, info.batch_size, info.total_records))]]

BatchTallies ==
  [f \in Files |->
     [c \in 0..(TotalBatches(FileRows(f), BATCH) - 1) |->
        RowTallyBackground(f, c * BATCH, Min(c * BATCH + BATCH, FileRows(f)))]]

ChunkTally(f, chunk_index) == ChunkTallies[f][chunk_index]

\* The batch of process_job that starts at row i.
BatchTally(f, i) == BatchTallies[f][i \div BATCH]

\* -------------------------------------------------------------------- state

VARIABLES
  mode,       \* "temporal" when temporal_client is set, else "background"
  csv,        \* job id -> the file stored as uploads/job_<id>.csv
  jobs,       \* the Job table: job id -> committed row
  txns,       \* the Transaction table in insertion order, as the row ranges
              \* of the committed bulk inserts
  workflows,  \* the ProcessJobWorkflow executions started so far
  tasks,      \* the process_job background tasks added so far, as a bag
  reply,      \* what the latest start_job request answered
  starts,     \* start_job requests so far
  faults,     \* failed activity attempts injected so far
  events,     \* the payloads posted to /internal/broadcast, in order
  sink,       \* whether the latest client.post returned or raised
  plan,       \* the chunk planner of init_job_activity on its own
  listing,    \* the latest transactions request and its answer
  activity,   \* one activity attempt under the timers of the Temporal server
  active_connections,  \* ConnectionManager: user id -> list of websockets
  sockets,    \* the websocket_endpoint call of each websocket
  broadcasts, \* the broadcast_to_user calls in flight, in call order
  returned    \* the broadcast_to_user call that ended last

\* The variables of the job pipeline, of the planner and of the manager.
jobVars == <<mode, csv, jobs, txns, workflows, tasks, reply, starts, faults,
             events, sink>>
wsVars == <<active_connections, sockets, broadcasts, returned>>
vars == <<jobVars, plan, listing, activity, wsVars>>

\* Job(user_id=user_id, status="UPLOADED") with the defaults of models.Job.
NewJob ==
  [status |-> "UPLOADED", total_records |-> 0, processed_records |-> 0,
   valid_records |-> 0, invalid_records |-> 0, suspicious_records |-> 0]

NoReply == [id |-> 0, result |-> "none", seen |-> "none", inflight |-> FALSE]

\* No planning in progress.
NoPlan ==
  [pc |-> "idle", total_records |-> 0, file_size_bytes |-> 0,
   batch_size |-> 0, total_batches |-> 0]

\* No activity attempt under observation.
NoActivity == [step |-> "none", pc |-> "idle", reason |-> "none", elapsed |-> 0]

\* No transactions request made.
NoListing ==
  [pc |-> "idle", job_id |-> 0, page |-> 0, size |-> 0, filter |-> "none",
   rows |-> <<>>]

\* A broadcast_to_user call with nothing done. The fields from sent on are
\* the call's history: the websockets whose send returned, whether a send
\* began to a websocket whose disconnect had completed, and the websockets
\* that have been in the user's list ever since the call was entered and to
\* which no send has begun yet.
NoCall ==
  [user |-> 0, pc |-> "none", index |-> 0, target |-> 0, dead |-> <<>>,
   detached |-> FALSE, sent |-> {}, late |-> FALSE, owed |-> {}]

\* manager = ConnectionManager(): no user has connections, no websocket has
\* connected, nothing has been broadcast.
NewManager ==
  /\ active_connections = [u \in {} |-> <<>>]
  /\ sockets = [c \in Sockets |-> [state |-> "new", user |-> 0, pruned |-> FALSE]]
  /\ broadcasts = <<>>
  /\ returned = NoCall

Init ==
  /\ mode \in {"temporal", "background"}
  /\ csv \in [JobIds -> Files]
  /\ jobs = [j \in JobIds |-> NewJob]
  /\ txns = <<>>
  /\ workflows = <<>>
  /\ tasks = EmptyBag
  /\ reply = NoReply
  /\ starts = 0
  /\ faults = 0
  /\ events = <<>>
  /\ sink = "none"
  /\ plan = NoPlan
  /\ listing = NoListing
  /\ activity = NoActivity
  /\ NewManager

\* ------------------------------------------------------- start_job endpoint

\* A workflow execution is open until it has completed or failed.
IsOpen(w) == w.pc \notin {"done", "failed"}

\* A background task is live until process_job has returned or raised.
IsLive(t) == t.pc \notin {"done", "returned", "crashed"}

\* start_workflow called without id=: every execution gets an id of its own
\* and none is refused.
NoWorkflowId(id) == FALSE

\* start_workflow(..., id=f"job-{job_id}") refuses a workflow id that an open
\* execution holds.
WorkflowIdInUse(id) ==
  \E k \in 1..Len(workflows) : workflows[k].job = id /\ IsOpen(workflows[k])

\* The execution that start_workflow creates.
NewWorkflow(id) ==
  [job |-> id, pc |-> "init", attempt |-> 1, chunk_index |-> 0,
   info |-> [total_records |-> 0, batch_size |-> 0, total_batches |-> 0],
   committed |-> FALSE, started |-> <<>>, log |-> <<>>]

\* The task that bg.add_task(process_job, job_id) queues.
NewTask(id) ==
  [job |-> id, pc |-> "get", i |-> 0, total |-> 0,
   local |-> [processed_records |-> 0, valid_records |-> 0,
              invalid_records |-> 0, suspicious_records |-> 0]]

\* Whether a run for the job is in flight when a request arrives.
RunInFlight(id) ==
  \/ WorkflowIdInUse(id)
  \/ \E t \in BagToSet(tasks) : t.job = id /\ IsLive(t)

\* start_job without its "Already running" check.
StartResultNoRunningGuard(id) ==
  IF id \notin JobIds THEN "not_found"
  ELSE IF mode = "temporal" /\ WorkflowIdInUse(id) THEN "error"
  ELSE "started"

\* What start_job answers: 404, 400, the WorkflowAlreadyStartedError that
\* start_workflow raises (a 500), or {"message": "started"}.
StartResult(id) ==
  IF id \notin JobIds THEN "not_found"
  ELSE IF jobs[id].status = "RUNNING" THEN "already_running"
  ELSE IF mode = "temporal" /\ WorkflowIdInUse(id) THEN "error"
  ELSE "started"

StartJob(id) ==
  /\ starts < MaxStarts
  /\ starts' = starts + 1
  /\ UNCHANGED <<mode, csv, jobs, txns, faults>>
  /\ UNCHANGED <<plan, listing, activity, wsVars>>
  /\ UNCHANGED <<events, sink>>
  /\ reply' = [id |-> id, result |-> StartResult(id),
               seen |-> IF id \in JobIds THEN jobs[id].status ELSE "none",
               inflight |-> RunInFlight(id)]
  /\ IF StartResult(id) # "started"
       THEN UNCHANGED <<workflows, tasks>>
     ELSE IF mode = "temporal"
       THEN /\ workflows' = Append(workflows, NewWorkflow(id))
            /\ UNCHANGED tasks
       ELSE /\ tasks' = tasks (+) SetToBag({NewTask(id)})
            /\ UNCHANGED workflows

\* ------------------------------------------------- workflow and activities

\* A workflow that catches the ActivityError of a step that is out of
\* attempts and goes on to complete_job_activity.
AttemptFailedSwallowed(w) ==
  IF w.attempt < MaxAttempts
    THEN [w EXCEPT !.attempt = @ + 1]
    ELSE [w EXCEPT !.pc = "complete", !.attempt = 1]

\* An activity attempt raised or was lost: execute_activity retries it until
\* maximum_attempts, then the workflow fails.
AttemptFailed(w) ==
  IF w.attempt < MaxAttempts
    THEN [w EXCEPT !.attempt = @ + 1]
    ELSE [w EXCEPT !.pc = "failed"]

\* The step an execution is at, as logged when it starts and when it ends.
StepOf(w) == [step |-> w.pc, index |-> IF w.pc = "chunk" THEN w.chunk_index ELSE 0]

\* The first attempt of a step is the start of the step.
Begun(w) == IF w.attempt = 1 THEN [w EXCEPT !.started = Append(@, StepOf(w))] ELSE w

\* The workflow after init_job_activity returned job_info: the chunk loop, or
\* complete_job_activity when range(total_batches) is empty.
AfterInit(w, job_info) ==
  [w EXCEPT !.info = job_info,
            !.pc = IF job_info.total_batches > 0 THEN "chunk" ELSE "complete",
            !.chunk_index = 0, !.attempt = 1, !.committed = FALSE,
            !.log = Append(@, StepOf(w))]

\* A chunk loop that steps by two.
AfterChunkSkipping(w) ==
  [w EXCEPT !.pc = IF w.chunk_index + 2 < w.info.total_batches
                     THEN "chunk" ELSE "complete",
            !.chunk_index = w.chunk_index + 2,
            !.attempt = 1, !.committed = FALSE,
            !.log = Append(@, StepOf(w))]

\* The workflow after process_chunk_activity returned: the next chunk_index of
\* range(total_batches), or complete_job_activity.
AfterChunk(w) ==
  [w EXCEPT !.pc = IF w.chunk_index + 1 < w.info.total_batches
                     THEN "chunk" ELSE "complete",
            !.chunk_index = w.chunk_index + 1,
            !.attempt = 1, !.committed = FALSE,
            !.log = Append(@, StepOf(w))]

\* The workflow after complete_job_activity returned.
AfterComplete(w) ==
  [w EXCEPT !.pc = "done", !.attempt = 1, !.committed = FALSE,
            !.log = Append(@, StepOf(w))]

\* What an attempt can end as: it returns; it raises before its commit; or it
\* commits and its result is lost (worker crash or timeout before the return).
Outcomes == {"ok", "fail_before", "fail_after"}

\* How /internal/broadcast can take a post: it broadcasts and answers 200, it
\* answers an error status, nothing listens at FASTAPI_URL, or it answers later
\* than the client waits.
Deliveries == {"delivered", "error", "unreachable", "slow"}

\* client.post raises when it cannot connect and when it times out; an error
\* status comes back as a response, and the code does not check it.
PostRaises(delivery) == delivery \in {"unreachable", "slow"}

\* An activity whose post is not inside a try: what post raises ends the
\* attempt after its commit.
ActivityOutcomeUncaught(outcome, delivery) ==
  IF outcome = "ok" /\ PostRaises(delivery) THEN "fail_after" ELSE outcome

\* try: ... await client.post(...) except Exception: logger.warning(...):
\* whatever the post does, the attempt ends as it would have without it.
ActivityOutcome(outcome, delivery) == outcome

\* int((job.processed_records / total_records) * 100) if total_records > 0
\* else 0. The source divides in double precision; on the counts this model
\* reaches that quotient is the exact one.
Percent(processed_records, total_records) ==
  IF total_records > 0 THEN (processed_records * 100) \div total_records ELSE 0

\* broadcast_payload of process_chunk_activity, read from the Job row after
\* the commit.
ChunkEvent(w, job) ==
  [job_id |-> w.job, status |-> "RUNNING",
   progress_percent |-> Percent(job.processed_records, w.info.total_records),
   processed_records |-> job.processed_records,
   total_records |-> w.info.total_records,
   valid_records |-> job.valid_records,
   invalid_records |-> job.invalid_records,
   suspicious_records |-> job.suspicious_records,
   batch_completed |-> w.chunk_index + 1,
   total_batches |-> w.info.total_batches]

\* "progress_percent": 100 in complete_job_activity's payload
FullPercent == 100

\* broadcast_payload of complete_job_activity.
CompleteEvent(w, job) ==
  [job_id |-> w.job, status |-> "COMPLETED",
   progress_percent |-> FullPercent,
   processed_records |-> job.processed_records,
   total_records |-> job.total_records,
   valid_records |-> job.valid_records,
   invalid_records |-> job.invalid_records,
   suspicious_records |-> job.suspicious_records,
   batch_completed |-> w.info.total_batches,
   total_batches |-> w.info.total_batches]

\* An attempt that got as far as its post appends the payload and meets one
\* of the sink's behaviours; an attempt that ended earlier posts nothing.
Post(posted, payload, delivery) ==
  IF posted
    THEN /\ events' = Append(events, payload)
         /\ sink' = IF PostRaises(delivery) THEN "raised" ELSE "returned"
    ELSE UNCHANGED <<events, sink>> /\ delivery = "delivered"

\* The Job row that init_job_activity commits.
InitCommit(job, total) ==
  [job EXCEPT !.status = "RUNNING", !.total_records = total,
              !.processed_records = 0, !.valid_records = 0,
              !.invalid_records = 0, !.suspicious_records = 0]

\* The Job row that process_chunk_activity commits with its bulk insert.
ChunkCommit(job, tally) ==
  [job EXCEPT !.processed_records = @ + tally.processed,
              !.valid_records = @ + tally.valid,
              !.invalid_records = @ + tally.invalid,
              !.suspicious_records = @ + tally.suspicious]

\* A commit of complete_job_activity that leaves the status as it was.
CompleteCommitKeepsStatus(job) == job

\* The Job row that complete_job_activity commits.
CompleteCommit(job) == [job EXCEPT !.status = "COMPLETED"]

\* An insert whose rows are committed one half at a time.
BulkInsertHalf(table, id, first, last) ==
  IF last > first
    THEN Append(table, [job_id |-> id, first |-> first,
                        last |-> first + (last - first + 1) \div 2])
    ELSE table

\* session.bulk_save_objects(transactions_to_insert)
BulkInsert(table, id, first, last) ==
  IF last > first
    THEN Append(table, [job_id |-> id, first |-> first, last |-> last])
    ELSE table

InitJobActivity(k) ==
  /\ k \in 1..Len(workflows)
  /\ workflows[k].pc = "init"
  /\ UNCHANGED <<mode, csv, txns, tasks, reply, starts>>
  /\ UNCHANGED <<plan, listing, activity, wsVars>>
  /\ UNCHANGED <<events, sink>>
  /\ LET w == Begun(workflows[k])
         id == w.job
         job_info == JobInfoOf(csv[id])
     IN IF jobs[id].status = "RUNNING"
          THEN \* raise ValueError(f"Job {job_id} is already running")
               /\ workflows' = [workflows EXCEPT ![k] = AttemptFailed(w)]
               /\ UNCHANGED <<jobs, faults>>
          ELSE \E outcome \in Outcomes :
                 /\ outcome # "ok" => faults < MaxFaults
                 /\ faults' = IF outcome = "ok" THEN faults ELSE faults + 1
                 /\ jobs' = IF outcome = "fail_before" THEN jobs
                            ELSE [jobs EXCEPT ![id] = InitCommit(@, job_info.total_records)]
                 /\ workflows' =
                      [workflows EXCEPT ![k] =
                         CASE outcome = "ok" -> AfterInit(w, job_info)
                           [] outcome = "fail_before" -> AttemptFailed(w)
                           [] outcome = "fail_after" ->
                                AttemptFailed([w EXCEPT !.committed = TRUE])]

ProcessChunkActivity(k) ==
  /\ k \in 1..Len(workflows)
  /\ workflows[k].pc = "chunk"
  /\ UNCHANGED <<mode, csv, tasks, reply, starts>>
  /\ UNCHANGED <<plan, listing, activity, wsVars>>
  /\ LET w == Begun(workflows[k])
         id == w.job
         first == ChunkStart(w.chunk_index, w.info.batch_size)
         last == ChunkEnd(w.chunk_index, w.info.batch_size, w.info.total_records)
         tally == ChunkTally(csv[id], w.chunk_index)
     IN \E outcome \in Outcomes, posted \in BOOLEAN, delivery \in Deliveries :
          /\ outcome # "ok" => faults < MaxFaults
          /\ outcome = "ok" => posted
          /\ outcome = "fail_before" => ~posted
          /\ faults' = IF outcome = "ok" THEN faults ELSE faults + 1
          /\ jobs' = IF outcome = "fail_before" THEN jobs
                     ELSE [jobs EXCEPT ![id] = ChunkCommit(@, tally)]
          /\ txns' = IF outcome = "fail_before" THEN txns
                     ELSE BulkInsert(txns, id, first, last)
          /\ Post(posted, ChunkEvent(w, jobs'[id]), delivery)
          /\ workflows' =
               [workflows EXCEPT ![k] =
                  CASE ActivityOutcome(outcome, delivery) = "ok" -> AfterChunk(w)
                    [] ActivityOutcome(outcome, delivery) = "fail_before" ->
                         AttemptFailed(w)
                    [] ActivityOutcome(outcome, delivery) = "fail_after" ->
                         AttemptFailed([w EXCEPT !.committed = TRUE])]

CompleteJobActivity(k) ==
  /\ k \in 1..Len(workflows)
  /\ workflows[k].pc = "complete"
  /\ UNCHANGED <<mode, csv, txns, tasks, reply, starts>>
  /\ UNCHANGED <<plan, listing, activity, wsVars>>
  /\ LET w == Begun(workflows[k])
         id == w.job
     IN \E outcome \in Outcomes, posted \in BOOLEAN, delivery \in Deliveries :
          /\ outcome # "ok" => faults < MaxFaults
          /\ outcome = "ok" => posted
          /\ outcome = "fail_before" => ~posted
          /\ faults' = IF outcome = "ok" THEN faults ELSE faults + 1
          /\ jobs' = IF outcome = "fail_before" THEN jobs
                     ELSE [jobs EXCEPT ![id] = CompleteCommit(@)]
          /\ Post(posted, CompleteEvent(w, jobs'[id]), delivery)
          /\ workflows' =
               [workflows EXCEPT ![k] =
                  CASE ActivityOutcome(outcome, delivery) = "ok" -> AfterComplete(w)
                    [] ActivityOutcome(outcome, delivery) = "fail_before" ->
                         AttemptFailed(w)
                    [] ActivityOutcome(outcome, delivery) = "fail_after" ->
                         AttemptFailed([w EXCEPT !.committed = TRUE])]

\* ------------------------------------------------ process_job (fallback)

\* One task of the bag moves from state t to state u.
Moved(t, u) == (tasks (-) SetToBag({t})) (+) SetToBag({u})

\* job = session.get(Job, job_id); if job.status == "RUNNING": return
ProcessJobGet(t) ==
  /\ t \in BagToSet(tasks)
  /\ t.pc = "get"
  /\ tasks' = Moved(t, [t EXCEPT !.pc = IF jobs[t.job].status = "RUNNING"
                                          THEN "returned" ELSE "set_running"])
  /\ UNCHANGED <<mode, csv, jobs, txns, workflows, reply, starts, faults>>
  /\ UNCHANGED <<plan, listing, activity, wsVars>>
  /\ UNCHANGED <<events, sink>>

\* job.status = "RUNNING"; session.commit()
ProcessJobSetRunning(t) ==
  /\ t \in BagToSet(tasks)
  /\ t.pc = "set_running"
  /\ jobs' = [jobs EXCEPT ![t.job].status = "RUNNING"]
  /\ tasks' = Moved(t, [t EXCEPT !.pc = "set_total"])
  /\ UNCHANGED <<mode, csv, txns, workflows, reply, starts, faults>>
  /\ UNCHANGED <<plan, listing, activity, wsVars>>
  /\ UNCHANGED <<events, sink>>

\* df = pd.read_csv(...); job.total_records = len(df); session.commit()
ProcessJobSetTotal(t) ==
  /\ t \in BagToSet(tasks)
  /\ t.pc = "set_total"
  /\ LET n == FileRows(csv[t.job])
     IN /\ jobs' = [jobs EXCEPT ![t.job].total_records = n]
        /\ tasks' = Moved(t, [t EXCEPT !.total = n, !.i = 0,
                                       !.pc = IF n > 0 THEN "load" ELSE "complete"])
  /\ UNCHANGED <<mode, csv, txns, workflows, reply, starts, faults>>
  /\ UNCHANGED <<plan, listing, activity, wsVars>>
  /\ UNCHANGED <<events, sink>>

\* The first job.processed_records += 1 of a batch: the commit before it
\* expired the session's Job, so the attribute access reloads the row.
ProcessJobLoad(t) ==
  /\ t \in BagToSet(tasks)
  /\ t.pc = "load"
  /\ LET job == jobs[t.job]
     IN tasks' = Moved(t, [t EXCEPT !.pc = "commit",
                                    !.local =
                                       [processed_records |-> job.processed_records,
                                        valid_records |-> job.valid_records,
                                        invalid_records |-> job.invalid_records,
                                        suspicious_records |-> job.suspicious_records]])
  /\ UNCHANGED <<mode, csv, jobs, txns, workflows, reply, starts, faults>>
  /\ UNCHANGED <<plan, listing, activity, wsVars>>
  /\ UNCHANGED <<events, sink>>

\* The UPDATE that session.commit() flushes for one batch: the session's own
\* counter values, for the attributes the batch changed.
BatchCommit(job, local, tally) ==
  [job EXCEPT
     !.processed_records = local.processed_records + tally.processed,
     !.valid_records = IF tally.valid > 0
                         THEN local.valid_records + tally.valid ELSE @,
     !.invalid_records = IF tally.invalid > 0
                           THEN local.invalid_records + tally.invalid ELSE @,
     !.suspicious_records = IF tally.suspicious > 0
                              THEN local.suspicious_records + tally.suspicious ELSE @]

\* The rest of one batch of the loop and its session.commit(); a row whose
\* float() raises ends process_job with nothing of the batch committed.
ProcessJobCommit(t) ==
  /\ t \in BagToSet(tasks)
  /\ t.pc = "commit"
  /\ LET last == Min(t.i + BATCH, t.total)
         tally == BatchTally(csv[t.job], t.i)
     IN IF tally.raises
          THEN /\ tasks' = Moved(t, [t EXCEPT !.pc = "crashed"])
               /\ UNCHANGED <<jobs, txns>>
          ELSE /\ jobs' = [jobs EXCEPT ![t.job] = BatchCommit(@, t.local, tally)]
               /\ txns' = BulkInsert(txns, t.job, t.i, last)
               /\ tasks' = Moved(t, [t EXCEPT !.i = t.i + BATCH,
                                              !.pc = IF t.i + BATCH < t.total
                                                       THEN "load" ELSE "complete"])
  /\ UNCHANGED <<mode, csv, workflows, reply, starts, faults>>
  /\ UNCHANGED <<plan, listing, activity, wsVars>>
  /\ UNCHANGED <<events, sink>>

\* job.status = "COMPLETED"; session.commit()
ProcessJobComplete(t) ==
  /\ t \in BagToSet(tasks)
  /\ t.pc = "complete"
  /\ jobs' = [jobs EXCEPT ![t.job].status = "COMPLETED"]
  /\ tasks' = Moved(t, [t EXCEPT !.pc = "done"])
  /\ UNCHANGED <<mode, csv, txns, workflows, reply, starts, faults>>
  /\ UNCHANGED <<plan, listing, activity, wsVars>>
  /\ UNCHANGED <<events, sink>>

\* ------------------------------------------------------- job_status endpoint

\* What GET /jobs/{job_id} answers from the committed Job row.
JobStatus(id) ==
  [id |-> id, status |-> jobs[id].status,
   total_records |-> jobs[id].total_records,
   processed_records |-> jobs[id].processed_records,
   valid_records |-> jobs[id].valid_records,
   invalid_records |-> jobs[id].invalid_records,
   suspicious_records |-> jobs[id].suspicious_records,
   progress_percent |-> IF jobs[id].total_records # 0
                          THEN Percent(jobs[id].processed_records,
                                       jobs[id].total_records)
                          ELSE 0]

\* -------------------------------------------------------- Transaction table

\* The Transaction objects that the row loop of process_chunk_activity and
\* that of process_job build of every row of every file, tabulated once.
ChunkTransactions ==
  [f \in Files |-> [i \in 0..(FileRows(f) - 1) |-> ValidateRow(Row(f, i))]]

BatchTransactions ==
  [f \in Files |->
     LET numeric == AmountColumnNumeric(f)
     IN [i \in 0..(FileRows(f) - 1) |-> ValidateRowBackground(Row(f, i), numeric)]]

\* The stored Transaction of source row i of the committed insert seg: the
\* workflow's chunk activity wrote it under Temporal, process_job otherwise.
Stored(seg, i) ==
  IF mode = "temporal" THEN ChunkTransactions[csv[seg.job_id]][i]
  ELSE BatchTransactions[csv[seg.job_id]][i]

\* The source rows of a committed insert.
RowsOf(seg) == seg.first..(seg.last - 1)

\* The rows of the first n committed inserts as a scan of the table without
\* ORDER BY returns them, in insertion order; id is the primary key and row
\* the source row of the file.
RECURSIVE TransactionTable(_)
TransactionTable(n) ==
  IF n = 0 THEN <<>>
  ELSE LET before == TransactionTable(n - 1)
           count == Len(before)
           seg == txns[n]
       IN before \o
          [k \in 1..(seg.last - seg.first) |->
             LET t == Stored(seg, seg.first + k - 1)
             IN [id |-> count + k, job_id |-> seg.job_id,
                 row |-> seg.first + k - 1, is_valid |-> t.is_valid,
                 is_suspicious |-> t.is_suspicious,
                 error_message |-> t.error_message]]

\* ------------------------------------------------- transactions endpoint

\* The values of the filter parameter; any other string filters nothing.
Filters == {"none", "valid", "invalid", "suspicious"}

\* The page sizes requested: the default and 100.
PageSizes == {DefaultPageSize, 100}

\* The pages requested.
Pages == 1..MaxPage

MatchesValidOnly(filter, t) == filter = "none" \/ t.is_valid

\* The where clauses that the filter parameter adds to the query.
Matches(filter, t) ==
  CASE filter = "valid" -> t.is_valid
    [] filter = "invalid" -> ~t.is_valid
    [] filter = "suspicious" -> t.is_suspicious
    [] OTHER -> TRUE

\* q: the rows of the job that pass the filter, of the Transaction table
\* that the request's session reads.
Query(session, job_id, filter) ==
  LET Selected(t) == t.job_id = job_id /\ Matches(filter, t)
  IN SelectSeq(session, Selected)

\* What GET /jobs/{job_id}/transactions answers: q.offset((page-1)*size)
\* .limit(size).
Transactions(session, job_id, page, size, filter) ==
  LET q == Query(session, job_id, filter)
  IN SubSeq(q, (page - 1) * size + 1, Min(page * size, Len(q)))

\* ------------------------------------------------------------ specification

Next ==
  \/ \E id \in JobIds \cup {UnknownJobId} : StartJob(id)
  \/ \E k \in 1..Len(workflows) : InitJobActivity(k)
  \/ \E k \in 1..Len(workflows) : ProcessChunkActivity(k)
  \/ \E k \in 1..Len(workflows) : CompleteJobActivity(k)
  \/ \E t \in BagToSet(tasks) : ProcessJobGet(t)
  \/ \E t \in BagToSet(tasks) : ProcessJobSetRunning(t)
  \/ \E t \in BagToSet(tasks) : ProcessJobSetTotal(t)
  \/ \E t \in BagToSet(tasks) : ProcessJobLoad(t)
  \/ \E t \in BagToSet(tasks) : ProcessJobCommit(t)
  \/ \E t \in BagToSet(tasks) : ProcessJobComplete(t)

Spec == Init /\ [][Next]_vars

\* ------------------------------------------------- the run under fairness

\* A step of the orchestrator that does not fail: an activity attempt of a
\* workflow execution that returns, or a step of a process_job task.
OrchestratorStep ==
  /\ \/ \E k \in 1..Len(workflows) : InitJobActivity(k)
     \/ \E k \in 1..Len(workflows) : ProcessChunkActivity(k)
     \/ \E k \in 1..Len(workflows) : CompleteJobActivity(k)
     \/ \E t \in BagToSet(tasks) : ProcessJobGet(t)
     \/ \E t \in BagToSet(tasks) : ProcessJobSetRunning(t)
     \/ \E t \in BagToSet(tasks) : ProcessJobSetTotal(t)
     \/ \E t \in BagToSet(tasks) : ProcessJobLoad(t)
     \/ \E t \in BagToSet(tasks) : ProcessJobCommit(t)
     \/ \E t \in BagToSet(tasks) : ProcessJobComplete(t)
  /\ faults' = faults

NextFair ==
  \/ \E id \in JobIds \cup {UnknownJobId} : StartJob(id)
  \/ OrchestratorStep

\* The Temporal worker and the BackgroundTasks runner keep executing what is
\* scheduled: a step that stays enabled is eventually taken.
SpecFair == Init /\ [][NextFair]_vars /\ WF_vars(OrchestratorStep)

\* -------------------------------------------------- the planner on its own

\* init_job_activity has read a file of some row count and size.
InitPlanner ==
  /\ mode = "temporal"
  /\ csv = [j \in JobIds |-> "empty"]
  /\ jobs = [j \in JobIds |-> NewJob]
  /\ txns = <<>>
  /\ workflows = <<>>
  /\ tasks = EmptyBag
  /\ reply = NoReply
  /\ starts = 0
  /\ faults = 0
  /\ events = <<>>
  /\ sink = "none"
  /\ NewManager
  /\ listing = NoListing
  /\ activity = NoActivity
  /\ plan \in {[NoPlan EXCEPT !.pc = "read", !.total_records = t,
                                !.file_size_bytes = b] :
                 t \in PlanRows, b \in PlanSizes}

\* batch_size and total_batches as init_job_activity computes them.
PlanChunks ==
  /\ plan.pc = "read"
  /\ plan' = [plan EXCEPT
                !.pc = "planned",
                !.batch_size = BatchSize(plan.total_records, plan.file_size_bytes),
                !.total_batches =
                   TotalBatches(plan.total_records,
                                BatchSize(plan.total_records, plan.file_size_bytes))]
  /\ UNCHANGED <<jobVars, listing, activity, wsVars>>

NextPlanner == PlanChunks

SpecPlanner == InitPlanner /\ [][NextPlanner]_vars

\* ------------------------------------ the transactions endpoint on its own

\* GET /jobs/{job_id}/transactions?page=..&size=..&filter=.., with the
\* Transaction table that its session reads.
ListTransactions(session, job_id, page, size, filter) ==
  /\ listing' = [pc |-> "answered", job_id |-> job_id, page |-> page,
                 size |-> size, filter |-> filter,
                 rows |-> Transactions(session, job_id, page, size, filter)]
  /\ UNCHANGED <<jobVars, plan, activity, wsVars>>

\* The job is started and runs with no activity attempt failing, and then the
\* completed job is listed once.
NextListing ==
  \/ Next /\ starts' <= ListedStarts /\ faults' = faults /\ listing.pc = "idle"
  \/ \E session \in {TransactionTable(Len(txns))}, id \in JobIds, page \in Pages,
        size \in PageSizes, filter \in Filters :
       /\ listing.pc = "idle" /\ jobs[id].status = "COMPLETED"
       /\ ListTransactions(session, id, page, size, filter)

SpecListing == Init /\ [][NextListing]_vars

\* --------------------------------------------- the activity timeouts alone

\* The three activities that the workflow executes.
Steps == {"init", "chunk", "complete"}

\* start_to_close_timeout of each execute_activity call, in ticks.
StartToClose(step) ==
  TicksPerMinute *
    CASE step = "init" -> InitStartToCloseMinutes
      [] step = "chunk" -> ChunkStartToCloseMinutes
      [] step = "complete" -> CompleteStartToCloseMinutes

\* Only the chunk activity is given a heartbeat_timeout.
HasHeartbeatTimeout(step) == step = "chunk"

\* heartbeat_timeout of process_chunk_activity, in ticks.
HeartbeatTimeout == TicksPerMinute * ChunkHeartbeatMinutes

\* Ticks since the last activity.heartbeat() of the attempt: no activity
\* calls it, so it is the time since the attempt started.
SinceHeartbeat == activity.elapsed

\* An attempt of one of the activities has just started.
InitTimeouts ==
  /\ mode = "temporal"
  /\ csv = [j \in JobIds |-> "empty"]
  /\ jobs = [j \in JobIds |-> NewJob]
  /\ txns = <<>>
  /\ workflows = <<>>
  /\ tasks = EmptyBag
  /\ reply = NoReply
  /\ starts = 0
  /\ faults = 0
  /\ events = <<>>
  /\ sink = "none"
  /\ plan = NoPlan
  /\ listing = NoListing
  /\ NewManager
  /\ activity \in {[NoActivity EXCEPT !.step = s, !.pc = "running"] : s \in Steps}

\* The attempt runs on for one tick: neither timer has expired.
Tick ==
  /\ activity.pc = "running"
  /\ activity.elapsed < StartToClose(activity.step)
  /\ HasHeartbeatTimeout(activity.step) => SinceHeartbeat < HeartbeatTimeout
  /\ activity' = [activity EXCEPT !.elapsed = @ + 1]
  /\ UNCHANGED <<jobVars, plan, listing, wsVars>>

\* The activity function returns.
ActivityReturns ==
  /\ activity.pc = "running"
  /\ activity' = [activity EXCEPT !.pc = "returned"]
  /\ UNCHANGED <<jobVars, plan, listing, wsVars>>

\* The server fails the attempt at its start_to_close_timeout.
StartToCloseExpires ==
  /\ activity.pc = "running"
  /\ activity.elapsed = StartToClose(activity.step)
  /\ activity' = [activity EXCEPT !.pc = "timed_out", !.reason = "start_to_close"]
  /\ UNCHANGED <<jobVars, plan, listing, wsVars>>

\* The server fails the attempt when no heartbeat has arrived for the
\* heartbeat_timeout.
HeartbeatExpires ==
  /\ activity.pc = "running"
  /\ HasHeartbeatTimeout(activity.step)
  /\ SinceHeartbeat = HeartbeatTimeout
  /\ activity' = [activity EXCEPT !.pc = "timed_out", !.reason = "heartbeat"]
  /\ UNCHANGED <<jobVars, plan, listing, wsVars>>

NextTimeouts ==
  \/ Tick
  \/ ActivityReturns
  \/ StartToCloseExpires
  \/ HeartbeatExpires

SpecTimeouts == InitTimeouts /\ [][NextTimeouts]_vars

\* ------------------------------------------------- websocket_manager.py

\* x in list
Contains(list, x) == \E n \in 1..Len(list) : list[n] = x

\* The elements of a list.
Elements(list) == {list[n] : n \in 1..Len(list)}

\* list.remove(x) on a list that holds x: the list without its first x.
RemoveFirst(list, x) ==
  LET n == CHOOSE n \in 1..Len(list) :
             list[n] = x /\ \A m \in 1..(n - 1) : list[m] # x
  IN SubSeq(list, 1, n - 1) \o SubSeq(list, n + 1, Len(list))

\* The websockets in the user's list: none for a user without a key.
RegisteredIn(registry, u) ==
  IF u \in DOMAIN registry THEN Elements(registry[u]) ELSE {}

\* del registry[u]
WithoutKey(registry, u) == [v \in DOMAIN registry \ {u} |-> registry[v]]

\* A disconnect that leaves the list as it is.
UnregisterNothing(registry, u, c) == registry

\* A disconnect that removes the websocket and keeps the key of an emptied
\* list.
UnregisterKeepsKey(registry, u, c) ==
  IF u \in DOMAIN registry /\ Contains(registry[u], c)
    THEN [registry EXCEPT ![u] = RemoveFirst(@, c)]
    ELSE registry

\* The body of disconnect: remove the websocket from the user's list and
\* delete the user's key when the list is left empty; nothing for an unknown
\* user or a websocket that is not in the list.
Unregister(registry, u, c) ==
  IF u \in DOMAIN registry /\ Contains(registry[u], c)
    THEN IF RemoveFirst(registry[u], c) = <<>>
           THEN WithoutKey(registry, u)
           ELSE [registry EXCEPT ![u] = RemoveFirst(@, c)]
    ELSE registry

\* What registry[u].remove(c) raises.
RemoveError(registry, u, c) ==
  IF u \notin DOMAIN registry THEN "KeyError"
  ELSE IF ~Contains(registry[u], c) THEN "ValueError"
  ELSE "none"

\* except ValueError in disconnect, which looks the user up only behind
\* "if user_id in self.active_connections".
DisconnectRaises(registry, u, c) ==
  u \in DOMAIN registry /\ RemoveError(registry, u, c) \notin {"none", "ValueError"}

\* except (ValueError, KeyError) around each remove of the dead connections.
CleanupRaises(registry, u, c) ==
  RemoveError(registry, u, c) \notin {"none", "ValueError", "KeyError"}

\* A broadcast_to_user that collects the dead websockets and removes none.
CleanupNothing(registry, u, dead) == registry

\* The last loop of broadcast_to_user: each dead websocket is removed from the
\* user's current list; the key stays even when the list is left empty.
RECURSIVE Cleanup(_, _, _)
Cleanup(registry, u, dead) ==
  IF dead = <<>> THEN registry
  ELSE Cleanup(IF RemoveError(registry, u, Head(dead)) = "none"
                 THEN [registry EXCEPT ![u] = RemoveFirst(@, Head(dead))]
                 ELSE registry,
               u, Tail(dead))

\* A broadcast_to_user call as it is entered.
NewBroadcast(u) ==
  [NoCall EXCEPT !.user = u, !.pc = "entered",
                 !.owed = RegisteredIn(active_connections, u)]

\* The list object that the for loop of a call walks: the user's list as it
\* is now, since the loop holds the list itself and no copy. Once disconnect
\* has deleted the user's key that object is unreachable from the registry and
\* stays empty, whatever list a later connect creates.
Iterated(b) ==
  IF b.detached \/ b.user \notin DOMAIN active_connections
    THEN <<>> ELSE active_connections[b.user]

\* The for loop up to its next await: the next websocket of the list is taken
\* and its send begins, or the list is exhausted and the call runs its
\* cleanup and returns.
Resume(b) ==
  IF b.index < Len(Iterated(b))
    THEN LET ws == Iterated(b)[b.index + 1]
         IN [b EXCEPT !.pc = "sending", !.index = @ + 1, !.target = ws,
                      !.owed = @ \ {ws},
                      !.late = @ \/ sockets[ws].state = "closed"]
    ELSE [b EXCEPT !.target = 0, !.index = 0, !.detached = FALSE,
                   !.pc = IF \E n \in 1..Len(b.dead) :
                               CleanupRaises(active_connections, b.user, b.dead[n])
                            THEN "raised" ELSE "returned"]

InFlight(b) == b.pc = "sending"

\* What the in-flight calls for user u see of a change of the registry.
Observed(b, u, registry) ==
  IF InFlight(b) /\ b.user = u
    THEN [b EXCEPT
            !.detached = @ \/ (u \in DOMAIN active_connections
                               /\ u \notin DOMAIN registry),
            !.owed = @ \cap RegisteredIn(registry, u)]
    ELSE b

\* websocket_endpoint: await ws_manager.connect(user_id, websocket). The
\* websockets are taken in the order of their numbers.
Connect(c, u) ==
  /\ sockets[c].state = "new"
  /\ \A d \in Sockets : d < c => sockets[d].state # "new"
  /\ sockets' = [sockets EXCEPT ![c].state = "open", ![c].user = u]
  /\ active_connections' =
       IF u \in DOMAIN active_connections
         THEN [active_connections EXCEPT ![u] = Append(@, c)]
         ELSE [v \in DOMAIN active_connections \cup {u} |->
                 IF v = u THEN <<c>> ELSE active_connections[v]]
  /\ UNCHANGED <<broadcasts, returned, jobVars, plan, listing, activity>>

\* websocket_endpoint: finally: await ws_manager.disconnect(user_id, websocket)
Disconnect(c) ==
  /\ sockets[c].state = "open"
  /\ LET u == sockets[c].user
         registry == Unregister(active_connections, u, c)
     IN /\ active_connections' = registry
        /\ sockets' = [sockets EXCEPT
                         ![c].state = IF DisconnectRaises(active_connections, u, c)
                                        THEN "raised" ELSE "closed"]
        /\ broadcasts' =
             [k \in 1..Len(broadcasts) |-> Observed(broadcasts[k], u, registry)]
  /\ UNCHANGED <<returned, jobVars, plan, listing, activity>>

\* The registry after a step of call b: cleaned up if the call has ended.
AfterCall(b) ==
  IF b.pc = "returned"
    THEN Cleanup(active_connections, b.user, b.dead) ELSE active_connections

\* The calls in flight after a step of call k that made it b: b in its
\* place if it is suspended again; without it if it has ended, and then the
\* others have seen its cleanup.
OtherCalls(k, b) ==
  IF InFlight(b) THEN [broadcasts EXCEPT ![k] = b]
  ELSE [j \in 1..(Len(broadcasts) - 1) |->
          Observed(broadcasts[IF j < k THEN j ELSE j + 1], b.user, AfterCall(b))]

\* The websockets after a step that made a call b: those that its cleanup
\* took out of the list are marked.
Marked(b) ==
  [c \in Sockets |->
     IF c \in RegisteredIn(active_connections, b.user)
               \ RegisteredIn(AfterCall(b), b.user)
       THEN [sockets[c] EXCEPT !.pruned = TRUE] ELSE sockets[c]]

\* A call of broadcast_to_user(user_id, data), up to its first await: it
\* returns at once for a user without a key, and otherwise begins its first
\* send.
BroadcastToUser(u) ==
  /\ Len(broadcasts) < MaxBroadcasts
  /\ LET b == IF u \notin DOMAIN active_connections
                THEN [NewBroadcast(u) EXCEPT !.pc = "returned"]
                ELSE Resume(NewBroadcast(u))
     IN IF InFlight(b)
          THEN broadcasts' = Append(broadcasts, b) /\ UNCHANGED returned
          ELSE returned' = b /\ UNCHANGED broadcasts
  /\ UNCHANGED <<active_connections, sockets, jobVars, plan, listing, activity>>

\* await websocket.send_text(message) returns or raises, and the call runs on
\* to its next send or to its end.
SendText(k, ok) ==
  /\ broadcasts[k].pc = "sending"
  /\ LET a == broadcasts[k]
         b == Resume([a EXCEPT
                        !.dead = IF ok THEN @ ELSE Append(@, a.target),
                        !.sent = IF ok THEN @ \cup {a.target} ELSE @])
     IN /\ active_connections' = AfterCall(b)
        /\ broadcasts' = OtherCalls(k, b)
        /\ returned' = IF InFlight(b) THEN returned ELSE b
        /\ sockets' = Marked(b)
  /\ UNCHANGED <<jobVars, plan, listing, activity>>

\* get_connection_count: len(self.active_connections.get(user_id, []))
GetConnectionCount(u) ==
  IF u \in DOMAIN active_connections THEN Len(active_connections[u]) ELSE 0

\* get_all_connected_users: the keys of the registry; a dict holds each key
\* once, so the list is taken as the set of its elements.
GetAllConnectedUsers == DOMAIN active_connections

\* The pipeline is idle while the manager is exercised.
InitManager ==
  /\ mode = "temporal"
  /\ csv = [j \in JobIds |-> "empty"]
  /\ jobs = [j \in JobIds |-> NewJob]
  /\ txns = <<>>
  /\ workflows = <<>>
  /\ tasks = EmptyBag
  /\ reply = NoReply
  /\ starts = 0
  /\ faults = 0
  /\ events = <<>>
  /\ sink = "none"
  /\ plan = NoPlan
  /\ listing = NoListing
  /\ activity = NoActivity
  /\ NewManager

NextManager ==
  \/ \E c \in Sockets, u \in Users : Connect(c, u)
  \/ \E c \in Sockets : Disconnect(c)
  \/ \E u \in Users : BroadcastToUser(u)
  \/ \E k \in 1..Len(broadcasts), ok \in BOOLEAN : SendText(k, ok)

SpecManager == InitManager /\ [][NextManager]_vars

\* ------------------------------------------------------------------ claims

\* The open workflow executions of a job id.
OpenRuns(id) ==
  {k \in 1..Len(workflows) : workflows[k].job = id /\ IsOpen(workflows[k])}

\* C1: in durable mode at most one ProcessJobWorkflow execution of a job id is
\* open (at its init, chunk or complete step) in any reachable state, however
\* the start_job requests interleave with the activities.
C1_AtMostOneOpenRun ==
  mode = "temporal" => \A id \in JobIds : Cardinality(OpenRuns(id)) <= 1

\* C1 witness: a second request read status UPLOADED while the first run had
\* not yet committed RUNNING, and start_workflow refused it.
C1_Witness ==
  /\ mode = "temporal"
  /\ reply.seen = "UPLOADED" /\ reply.inflight /\ reply.result = "error"
  /\ Cardinality(OpenRuns(1)) = 1

\* C2: a chunk attempt made after an attempt of the same chunk has already
\* committed changes neither the Job counters nor the Transaction table.
C2_RetryAfterCommitIsNoOp ==
  [][(\E k \in 1..Len(workflows) :
        workflows[k].pc = "chunk" /\ workflows[k].committed)
     => UNCHANGED <<jobs, txns>>]_vars

\* C3: a job whose status is COMPLETED or FAILED keeps that status in every
\* step.
C3_TerminalStatusIsKept ==
  [][\A id \in JobIds :
       jobs[id].status \in {"COMPLETED", "FAILED"}
         => jobs'[id].status = jobs[id].status]_vars

\* C4: when a run has ended in failure (a workflow out of attempts, a
\* process_job that raised), the job's stored status is FAILED.
C4_FailedRunMarksJobFailed ==
  /\ \A k \in 1..Len(workflows) :
       workflows[k].pc = "failed" => jobs[workflows[k].job].status = "FAILED"
  /\ \A t \in BagToSet(tasks) :
       t.pc = "crashed" => jobs[t.job].status = "FAILED"

\* A step that answers a start_job request.
StartAnswered == starts' = starts + 1

\* C5 as claimed: RUNNING is rejected, an unknown id is not found, UPLOADED is
\* accepted, and a request that is not accepted launches nothing and changes
\* no job.
C5_StartAnswers ==
  [][StartAnswered =>
       /\ reply'.seen = "RUNNING" => reply'.result = "already_running"
       /\ reply'.seen = "none" => reply'.result = "not_found"
       /\ reply'.seen = "UPLOADED" => reply'.result = "started"
       /\ reply'.result # "started" => UNCHANGED <<jobs, txns, workflows, tasks>>]_vars

\* C5 amended: the same, except that in durable mode a request for an
\* UPLOADED job whose workflow id is held by an open execution is refused
\* with start_workflow's error; every other request for an UPLOADED job is
\* accepted and launches exactly one run.
C5_StartAnswersAmended ==
  [][StartAnswered =>
       /\ reply'.seen = "RUNNING" => reply'.result = "already_running"
       /\ reply'.seen = "none" => reply'.result = "not_found"
       /\ reply'.seen = "UPLOADED" =>
            reply'.result = IF mode = "temporal" /\ reply'.inflight
                              THEN "error" ELSE "started"
       /\ reply'.result # "started" => UNCHANGED <<jobs, txns, workflows, tasks>>
       /\ reply'.result = "started" =>
            Len(workflows') + BagCardinality(tasks')
              = Len(workflows) + BagCardinality(tasks) + 1]_vars

\* C5 witness: all three answers have been given in one behaviour: the job is
\* RUNNING, its run was accepted, and the latest request was rejected.
C5_Witness ==
  /\ reply.seen = "RUNNING" /\ reply.result = "already_running"
  /\ Len(workflows) + BagCardinality(tasks) = 1

\* C6: a request that arrives while a run of the job is in flight is never
\* answered "started", and no accepted run is dropped by process_job's
\* silent return.
C6_DuplicateStartIsRejected ==
  /\ reply.inflight => reply.result # "started"
  /\ \A t \in BagToSet(tasks) : t.pc # "returned"

\* A process_job past its status guard and not yet finished.
PastGuard(t) == t.pc \in {"set_running", "set_total", "load", "commit", "complete"}

\* The bulk inserts of one pass over a file of n rows in batches of b.
OnePass(id, n, b) ==
  [c \in 1..TotalBatches(n, b) |->
     [job_id |-> id, first |-> (c - 1) * b, last |-> Min(c * b, n)]]

IsPrefix(s, t) == Len(s) <= Len(t) /\ s = SubSeq(t, 1, Len(s))

\* C7: in fallback mode at most one process_job is past the guard at a time,
\* and the Transaction table is a prefix of one ascending pass over the
\* file's batches.
C7_SingleBackgroundPass ==
  mode = "background" =>
    /\ BagCardinality([t \in {u \in BagToSet(tasks) : PastGuard(u)} |-> tasks[t]]) <= 1
    /\ \A id \in JobIds : IsPrefix(txns, OnePass(id, FileRows(csv[id]), BATCH))

\* processed = valid + invalid and suspicious <= processed
CountersConsistent(job) ==
  /\ job.processed_records = job.valid_records + job.invalid_records
  /\ job.suspicious_records <= job.processed_records

\* C8: a COMPLETED job has processed_records = total_records and consistent
\* counters.
C8_CompletedCounters ==
  \A id \in JobIds :
    jobs[id].status = "COMPLETED" =>
      /\ jobs[id].processed_records = jobs[id].total_records
      /\ CountersConsistent(jobs[id])

\* C9: every committed Job row has processed = valid + invalid and
\* suspicious <= processed.
C9_CountersConsistent == \A id \in JobIds : CountersConsistent(jobs[id])

\* The steps of a run with n chunks, in order.
ExpectedSteps(n) ==
  <<[step |-> "init", index |-> 0]>>
    \o [c \in 1..n |-> [step |-> "chunk", index |-> c - 1]]
    \o <<[step |-> "complete", index |-> 0]>>

\* C10: the steps a run starts are init, chunks 0..N-1 in ascending order and
\* complete, N being init's total_batches; a step starts only when every
\* earlier step has returned, so at most one step is in progress; a finished
\* run has executed all of them.
C10_StepsInOrder ==
  \A k \in 1..Len(workflows) :
    LET w == workflows[k]
        n == IF Len(w.log) = 0 THEN 0 ELSE w.info.total_batches
    IN /\ IsPrefix(w.started, ExpectedSteps(n))
       /\ IsPrefix(w.log, w.started)
       /\ Len(w.started) <= Len(w.log) + 1
       /\ w.pc = "done" => w.log = ExpectedSteps(n)

\* C10 witness: a run of three chunks has finished.
C10_Witness ==
  \E k \in 1..Len(workflows) :
    workflows[k].pc = "done" /\ Len(workflows[k].log) = 5

\* C11: when the last allowed attempt of a step fails, the run fails, and a
\* failed run takes no further step: it starts no chunk of a higher index,
\* never starts complete_job_activity, and its record never changes again, so
\* it commits nothing and never sets COMPLETED.
C11_FailedRunStops ==
  [][\A k \in 1..Len(workflows) :
       LET w == workflows[k]
           v == workflows'[k]
       IN /\ (w.attempt = MaxAttempts /\ v # w /\ v.log = w.log) =>
               /\ v.pc = "failed"
               /\ v.started = Begun(w).started
               /\ Len(v.started) = Len(v.log) + 1
               /\ v.started[Len(v.started)] = StepOf(w)
          /\ w.pc = "failed" => v = w]_vars

\* C11 witness: a run of three chunks failed at chunk 0, with chunks 1 and 2
\* and complete_job_activity never started and the job left RUNNING.
C11_Witness ==
  \E k \in 1..Len(workflows) :
    LET w == workflows[k]
    IN /\ w.pc = "failed" /\ w.info.total_batches = 3
       /\ w.started[Len(w.started)] = [step |-> "chunk", index |-> 0]
       /\ jobs[w.job].status = "RUNNING"

\* The RUNNING events posted so far for chunk c of a job.
ChunkEvents(id, c) ==
  Cardinality({n \in 1..Len(events) :
                 /\ events[n].job_id = id /\ events[n].status = "RUNNING"
                 /\ events[n].batch_completed = c + 1})

\* The runs of a job that have started (or, with done, returned from) chunk c: workflow
\* executions by their logs, process_job tasks by the batches they committed.
ChunkRuns(id, c, done) ==
  Cardinality({k \in 1..Len(workflows) :
                 /\ workflows[k].job = id
                 /\ \E n \in 1..Len(IF done THEN workflows[k].log
                                      ELSE workflows[k].started) :
                      (IF done THEN workflows[k].log
                       ELSE workflows[k].started)[n] = [step |-> "chunk", index |-> c]})
    + BagCardinality([t \in {u \in BagToSet(tasks) :
                               u.job = id /\ u.i > c * BATCH} |-> tasks[t]])

\* The chunk indexes of the files of the model, in either mode.
ChunkIndexes ==
  UNION {0..(JobInfoOf(f).total_batches - 1) : f \in Files}
    \cup UNION {0..(TotalBatches(FileRows(f), BATCH) - 1) : f \in Files}

\* C12: every chunk that a run has finished has had one progress event, no
\* chunk has had more events than runs that started it, and an event is posted
\* in the step that commits the counters, carrying the Job row's committed
\* counters; in durable mode and in fallback mode.
C12_OneEventPerChunk ==
  [][/\ \A id \in JobIds, c \in ChunkIndexes :
          /\ ChunkRuns(id, c, TRUE)' <= ChunkEvents(id, c)'
          /\ ChunkEvents(id, c)' <= ChunkRuns(id, c, FALSE)'
     /\ Len(events') > Len(events) =>
          LET e == events'[Len(events')]
              job == jobs'[e.job_id]
          IN /\ e.processed_records = job.processed_records
             /\ e.valid_records = job.valid_records
             /\ e.invalid_records = job.invalid_records
             /\ e.suspicious_records = job.suspicious_records]_vars

\* C13: a chunk or complete attempt that reached its post and met no fault
\* returns, with its commit made and the run moved to its next step,
\* whether the post returned or raised: a failed delivery fails no attempt.
C13_DeliveryFailureIsSwallowed ==
  [][\A k \in 1..Len(workflows) :
       LET w == workflows[k]
           v == workflows'[k]
       IN (/\ w.pc \in {"chunk", "complete"} /\ v # w
           /\ Len(events') > Len(events) /\ faults' = faults
           /\ sink' \in {"returned", "raised"}) =>
            IF w.pc = "chunk"
              THEN /\ v = AfterChunk(Begun(w))
                   /\ jobs' = [jobs EXCEPT ![w.job] =
                                 ChunkCommit(@, ChunkTally(csv[w.job], w.chunk_index))]
              ELSE /\ v = AfterComplete(Begun(w))
                   /\ jobs' = [jobs EXCEPT ![w.job] = CompleteCommit(@)]]_vars

\* C13 witness: the post of chunk 0 raised, and the run is at chunk 1 with no
\* attempt failed and chunk 0's hundred rows counted once.
C13_Witness ==
  \E k \in 1..Len(workflows) :
    /\ workflows[k].pc = "chunk" /\ workflows[k].chunk_index = 1
    /\ workflows[k].attempt = 1
    /\ sink = "raised" /\ faults = 0 /\ Len(events) = 1
    /\ jobs[workflows[k].job].processed_records = workflows[k].info.batch_size

\* floor(processed * 100 / total), and 0 when total is 0
FloorPercent(processed, total) ==
  IF total > 0 THEN (processed * 100) \div total ELSE 0

\* C16: the progress_percent of every posted event, RUNNING or COMPLETED, and
\* of every job_status answer is floor(processed_records * 100 /
\* total_records), and 0 when total_records is 0.
C16_PercentIsFloor ==
  /\ \A n \in 1..Len(events) :
       events[n].progress_percent
         = FloorPercent(events[n].processed_records, events[n].total_records)
  /\ \A id \in JobIds :
       JobStatus(id).progress_percent
         = FloorPercent(JobStatus(id).processed_records, JobStatus(id).total_records)

\* C14: for every row count T >= 0 and file size S > 0 the planner's batch
\* size B is between 100 and 5000, and its chunk count N is the least N >= 0
\* with N * B >= T, that is ceil(T / B), which is 0 when T = 0.
C14_BatchSizeClampedAndCeil ==
  plan.pc = "planned" =>
    /\ MinBatchSize <= plan.batch_size /\ plan.batch_size <= MaxBatchSize
    /\ plan.total_batches >= 0
    /\ plan.total_batches * plan.batch_size >= plan.total_records
    /\ (plan.total_batches - 1) * plan.batch_size < plan.total_records
    /\ plan.total_records = 0 => plan.total_batches = 0

\* C14 witness: a plan of several chunks whose batch size lies strictly
\* between the clamps and whose last chunk is short.
C14_Witness ==
  /\ plan.pc = "planned"
  /\ MinBatchSize < plan.batch_size /\ plan.batch_size < MaxBatchSize
  /\ plan.total_batches = 3
  /\ plan.total_batches * plan.batch_size > plan.total_records

\* C15 as claimed: a header-only file (T = 0) gets the upper clamp as its
\* batch size.
C15_EmptyFileGetsUpperClamp ==
  (plan.pc = "planned" /\ plan.total_records = 0) => plan.batch_size = MaxBatchSize

\* C15 amended: a header-only file (T = 0, S > 0) gets the lower clamp as its
\* batch size, and no chunk.
C15_EmptyFileGetsLowerClamp ==
  (plan.pc = "planned" /\ plan.total_records = 0) =>
    plan.batch_size = MinBatchSize /\ plan.total_batches = 0

\* C15 witness: the header-only upload of 40 bytes has been planned.
C15_Witness ==
  /\ plan.pc = "planned" /\ plan.total_records = 0
  /\ plan.file_size_bytes = FileSize("empty")

\* C17 as claimed: a call that has returned began a send to every websocket
\* that was in the user's list from the call's entry to its return, whatever
\* connects and disconnects of other websockets happened between its sends.
C17_NoRegisteredConnectionSkipped ==
  returned.pc = "returned" => returned.owed = {}

\* C18: no call raises, and no call begins a send to a websocket whose
\* disconnect has completed, so none does after a disconnect that completed
\* while the call was suspended in a send.
C18_NoSendAfterDisconnect ==
  /\ returned.pc # "raised" /\ ~returned.late
  /\ \A k \in 1..Len(broadcasts) : ~broadcasts[k].late

\* C18 witness: a call is suspended in its second send, and the websocket of
\* its first send, which returned, has disconnected since.
C18_Witness ==
  \E k \in 1..Len(broadcasts) :
    /\ broadcasts[k].pc = "sending"
    /\ \E c \in broadcasts[k].sent :
         sockets[c].state = "closed" /\ c # broadcasts[k].target

\* A step in which a call that was suspended in a send returns.
Returns == Len(broadcasts') < Len(broadcasts) /\ returned'.pc = "returned"

\* The websockets whose endpoint has not yet called disconnect.
NotDisconnected == {c \in Sockets : sockets'[c].state = "open"}

\* C19 as claimed: when a call returns, no websocket whose send failed in it
\* is in the user's list, and every websocket whose send returned and that
\* has not disconnected since is in the list.
C19_PrunedExactlyTheFailed ==
  [][Returns =>
       LET b == returned'
           now == RegisteredIn(active_connections', b.user)
       IN /\ Elements(b.dead) \cap now = {}
          /\ (b.sent \cap NotDisconnected) \subseteq now]_vars

\* C19 amended: the same, for the websockets whose send returned and that
\* neither have disconnected since nor were taken out of the list by the
\* cleanup of another call in which their send failed.
C19_PrunedExactlyTheFailedAmended ==
  [][Returns =>
       LET b == returned'
           now == RegisteredIn(active_connections', b.user)
       IN /\ Elements(b.dead) \cap now = {}
          /\ {c \in b.sent \cap NotDisconnected : ~sockets'[c].pruned} \subseteq now]_vars

\* C19 witness: a call has returned in which one send failed and one
\* returned; the websocket of the first is out of the list and that of the
\* second is in it.
C19_Witness ==
  /\ returned.pc = "returned" /\ Len(returned.dead) = 1 /\ returned.sent # {}
  /\ Elements(returned.dead) \cap RegisteredIn(active_connections, returned.user) = {}
  /\ returned.sent \subseteq RegisteredIn(active_connections, returned.user)

\* C20: a disconnect of a websocket that is in its user's list leaves the
\* list without it, every other list as it was, and deletes the user's key
\* when the list is left empty; a disconnect of a websocket that is not in
\* the list, or whose user has no key, leaves the registry as it was; and in
\* neither case does the call raise.
C20_DisconnectRemoves ==
  [][\A c \in Sockets :
       (sockets[c].state = "open" /\ sockets'[c].state # "open") =>
         LET u == sockets[c].user
             Other(x) == x # c
             rest == IF u \in DOMAIN active_connections
                       THEN SelectSeq(active_connections[u], Other) ELSE <<>>
         IN /\ sockets'[c].state = "closed"
            /\ IF c \in RegisteredIn(active_connections, u)
                 THEN /\ DOMAIN active_connections' =
                           IF rest = <<>> THEN DOMAIN active_connections \ {u}
                           ELSE DOMAIN active_connections
                      /\ \A v \in DOMAIN active_connections' :
                           active_connections'[v] =
                             IF v = u THEN rest ELSE active_connections[v]
                 ELSE active_connections' = active_connections]_vars

\* C20 witness: both websockets of a user have disconnected, one of them after
\* a broadcast had already removed it as dead, and the user has no key.
C20_Witness ==
  \E c, d \in Sockets :
    /\ c # d
    /\ sockets[c].state = "closed" /\ sockets[d].state = "closed"
    /\ sockets[c].user = sockets[d].user
    /\ sockets[c].user \notin DOMAIN active_connections
    /\ sockets[d].pruned /\ ~sockets[c].pruned

\* The websockets to which call b has begun a send.
Attempted(b) == b.sent \cup Elements(b.dead) \cup {b.target}

\* A step in which the call at place k of the calls in flight begins a send.
BeginsSend(k) ==
  /\ Len(broadcasts') = Len(broadcasts)
  /\ broadcasts'[k].pc = "sending"
  /\ broadcasts'[k].index # broadcasts[k].index

\* C21 as claimed: broadcasts holds the calls in flight in the order of their
\* invocation, and a websocket receives the events in the order in which the
\* sends to it begin; so no call begins a send to a websocket to which a call
\* invoked after it has already begun its send.
C21_PublishOrderKept ==
  [][\A k, j \in 1..Len(broadcasts) :
       (k < j /\ BeginsSend(k)) =>
         broadcasts'[k].target \notin Attempted(broadcasts[j])]_vars

\* The error reason of the first check that fails on a row.
FirstFailingCheck(row) ==
  IF ~IsIsoTimestamp(row.timestamp) THEN "Invalid timestamp"
  ELSE IF ~IsFloatText(row.amount) THEN "Invalid amount" ELSE "none"

\* C22 as claimed: every stored Transaction carries the error reason of the
\* first check that fails on its row and no other, is valid exactly when no
\* check fails, and has amount 0.0 when its amount is the failing check; in
\* durable mode and in fallback mode.
C22_FirstFailingCheckWins ==
  \A n \in 1..Len(txns) : \A i \in RowsOf(txns[n]) :
    LET t == Stored(txns[n], i)
        expected == FirstFailingCheck(Row(csv[txns[n].job_id], i))
    IN /\ t.error_message = expected
       /\ t.is_valid = (expected = "none")
       /\ ~IsFloatText(Row(csv[txns[n].job_id], i).amount) => t.amount = 0

\* A Transaction t built from the cells row has the right suspicious flag:
\* true exactly when the amount parses and is below 0 or above 50000; and,
\* built by the chunk processor, a row with a bad timestamp and amount 60000
\* is invalid and suspicious, one with amount -100 and a good timestamp is
\* valid and suspicious.
RightlyFlagged(row, t, durable) ==
  /\ t.is_suspicious = (row.amount \in {"60000", "-100"})
  /\ row.amount \in {"0", "50000", "120.50", "abc"} => ~t.is_suspicious
  /\ (durable /\ row.amount = "60000" /\ row.timestamp = "not-a-date")
       => ~t.is_valid /\ t.is_suspicious
  /\ (durable /\ row.amount = "-100" /\ IsIsoTimestamp(row.timestamp))
       => t.is_valid /\ t.is_suspicious

\* The rows of each file that each row loop flags wrongly, tabulated once.
WronglyFlagged ==
  [f \in Files |->
     [temporal |-> {i \in 0..(FileRows(f) - 1) :
                      ~RightlyFlagged(Row(f, i), ChunkTransactions[f][i], TRUE)},
      background |-> {i \in 0..(FileRows(f) - 1) :
                        ~RightlyFlagged(Row(f, i), BatchTransactions[f][i], FALSE)}]]

\* C23: a stored row is suspicious exactly when its amount parses and is
\* below 0 or above 50000, so 0 and 50000 are not suspicious, whether or not
\* the row is valid; the chunk processor stores a row with a bad timestamp and
\* amount 60000 as invalid and suspicious, and a row with amount -100 and a
\* good timestamp as valid and suspicious.
C23_SuspiciousIffOutOfRange ==
  \A n \in 1..Len(txns) :
    \A i \in WronglyFlagged[csv[txns[n].job_id]][mode] : i \notin RowsOf(txns[n])

\* The stored Transaction rows with the cells of their source rows.
StoredRows ==
  UNION {{[row |-> Row(csv[txns[n].job_id], i), t |-> Stored(txns[n], i)] :
            i \in RowsOf(txns[n])} : n \in 1..Len(txns)}

\* C23 witness: the chunk processor has stored rows with amounts 0, 50000,
\* 60000 under a bad timestamp, and -100 under a good one.
C23_Witness ==
  /\ mode = "temporal"
  /\ \A a \in {"0", "50000", "-100"} : \E s \in StoredRows : s.row.amount = a
  /\ \E s \in StoredRows : s.row.amount = "60000" /\ s.row.timestamp = "not-a-date"
  /\ \E s \in StoredRows : s.row.amount = "-100" /\ s.t.is_valid /\ s.t.is_suspicious

\* C24 as claimed: no process_job run is ended by a row of its file: a batch
\* that holds a row with an unparsable timestamp or amount is committed like
\* any other, with that row stored as invalid.
C24_BadRowNeverAborts ==
  \A t \in BagToSet(tasks) :
    /\ t.pc # "crashed"
    /\ t.pc = "done" =>
         \A i \in 0..(FileRows(csv[t.job]) - 1) :
           \E n \in 1..Len(txns) :
             /\ txns[n].job_id = t.job /\ i \in RowsOf(txns[n])
             /\ FirstFailingCheck(Row(csv[t.job], i)) # "none"
                  => ~Stored(txns[n], i).is_valid

\* The pages that hold n rows, for a page size.
PagesOf(n, size) == 1..((n + size - 1) \div size)

\* The primary keys of the rows of a list.
Ids(rows) == {rows[n].id : n \in 1..Len(rows)}

\* The primary keys of the rows that the pages of a filter return.
ResultIds(session, job_id, size, filter) ==
  UNION {Ids(Transactions(session, job_id, p, size, filter)) :
           p \in PagesOf(Len(session), size)}

\* C25: for a completed job every answer to filter=valid holds only valid
\* rows, to filter=invalid only invalid rows and to filter=suspicious only
\* suspicious rows; the valid and the invalid results are disjoint and
\* together are every transaction of the job; and a row with an unparsable
\* timestamp is in the invalid result with error 'Invalid timestamp' and not
\* in the valid result.
C25_FiltersSelect ==
  /\ listing.pc = "answered" =>
       \A n \in 1..Len(listing.rows) :
         /\ listing.rows[n].job_id = listing.job_id
         /\ listing.filter = "valid" => listing.rows[n].is_valid
         /\ listing.filter = "invalid" => ~listing.rows[n].is_valid
         /\ listing.filter = "suspicious" => listing.rows[n].is_suspicious
  /\ \A id \in JobIds : jobs[id].status = "COMPLETED" =>
       \A table \in {TransactionTable(Len(txns))} :
         \A valid \in {ResultIds(table, id, 100, "valid")},
            invalid \in {ResultIds(table, id, 100, "invalid")} :
           /\ valid \cap invalid = {}
           /\ valid \cup invalid = {n \in 1..Len(table) : table[n].job_id = id}
           /\ \A n \in 1..Len(table) :
                (table[n].job_id = id
                   /\ ~IsIsoTimestamp(Row(csv[id], table[n].row).timestamp))
                  => /\ n \in invalid /\ n \notin valid
                     /\ table[n].error_message = "Invalid timestamp"

\* C25 witness: filter=invalid has answered rows of a completed job, with a
\* row whose error is 'Invalid timestamp', and the job has valid rows too.
C25_Witness ==
  /\ listing.pc = "answered" /\ listing.filter = "invalid"
  /\ jobs[listing.job_id].status = "COMPLETED"
  /\ \E n \in 1..Len(listing.rows) :
       listing.rows[n].error_message = "Invalid timestamp"
  /\ Len(Query(TransactionTable(Len(txns)), listing.job_id, "valid")) > 0

\* C26 as claimed: for a completed job with n transactions and page size s,
\* each of the pages 1..ceil(n/s) returns s rows except the last, which
\* returns the remainder, and the pages one after the other are the rows of
\* the source file in the file's order, each once.
C26_PagesFollowTheFile ==
  \A id \in JobIds : jobs[id].status = "COMPLETED" =>
    \A table \in {TransactionTable(Len(txns))}, size \in PageSizes :
      LET n == Len(Query(table, id, "none"))
          last == (n + size - 1) \div size
      IN \A p \in 1..last :
           \A rows \in {Transactions(table, id, p, size, "none")} :
             /\ Len(rows) = IF p < last THEN size ELSE n - (last - 1) * size
             /\ \A k \in 1..Len(rows) : rows[k].row = (p - 1) * size + k - 1

\* The number of rows of each chunk of each file that
\* process_chunk_activity stores with a flag set, tabulated once.
FlaggedRows ==
  [f \in Files |->
     [c \in 0..(JobInfoOf(f).total_batches - 1) |->
        LET rows == (c * JobInfoOf(f).batch_size)
                      ..(Min((c + 1) * JobInfoOf(f).batch_size, FileRows(f)) - 1)
        IN [is_valid |->
              Cardinality({i \in rows : ChunkTransactions[f][i].is_valid}),
            is_suspicious |->
              Cardinality({i \in rows : ChunkTransactions[f][i].is_suspicious})]]]

Flagged(f, chunk_index, flag) == FlaggedRows[f][chunk_index][flag]

\* C27: a step of process_chunk_activity either leaves the Transaction table
\* and the Job row as they were, or adds all rows of its chunk and adds their
\* counts to the four counters in the same step, so no reader sees a part of
\* the rows or rows without their counts; and an attempt that fails with
\* nothing committed for its chunk leaves both as they were.
C27_ChunkCommitIsAtomic ==
  [][\A k \in 1..Len(workflows) :
       (workflows[k].pc = "chunk" /\ workflows'[k] # workflows[k]) =>
         LET w == workflows[k]
             id == w.job
             first == w.chunk_index * w.info.batch_size
             last == Min(first + w.info.batch_size, w.info.total_records)
             failed == workflows'[k].pc = "failed"
                         \/ workflows'[k].attempt = w.attempt + 1
         IN /\ \/ jobs' = jobs /\ txns' = txns
               \/ /\ txns' = Append(txns, [job_id |-> id, first |-> first,
                                           last |-> last])
                  /\ last > first
                  /\ jobs'[id] =
                       [jobs[id] EXCEPT
                          !.processed_records = @ + (last - first),
                          !.valid_records =
                             @ + Flagged(csv[id], w.chunk_index, "is_valid"),
                          !.invalid_records =
                             @ + (last - first)
                               - Flagged(csv[id], w.chunk_index, "is_valid"),
                          !.suspicious_records =
                             @ + Flagged(csv[id], w.chunk_index, "is_suspicious")]
            /\ (failed /\ ~workflows'[k].committed)
                 => jobs' = jobs /\ txns' = txns]_vars

\* C27 witness: the first attempt of the second chunk has failed before its
\* commit, and the table and the counters hold the first chunk and no more.
C27_Witness ==
  \E k \in 1..Len(workflows) :
    /\ workflows[k].pc = "chunk" /\ workflows[k].chunk_index = 1
    /\ workflows[k].attempt = 2 /\ ~workflows[k].committed
    /\ Len(txns) = 1 /\ txns[1].first = 0
    /\ jobs[workflows[k].job].processed_records = txns[1].last
    /\ jobs[workflows[k].job].valid_records
         = Flagged(csv[workflows[k].job], 0, "is_valid")

\* C28: for every row count and the batch size and chunk count that the
\* planner gives it, the row range of every chunk is non-empty, the first
\* begins at row 0, each begins where the one before ends, and the last ends
\* at the row count; so the ranges are disjoint, ascending, and every source
\* row is in exactly one of them.
C28_ChunksPartitionTheRows ==
  plan.pc = "planned" =>
    LET T == plan.total_records
        B == plan.batch_size
        N == plan.total_batches
    IN /\ \A i \in 0..(N - 1) : ChunkStart(i, B) < ChunkEnd(i, B, T)
       /\ \A i \in 0..(N - 2) : ChunkEnd(i, B, T) = ChunkStart(i + 1, B)
       /\ N > 0 => ChunkStart(0, B) = 0 /\ ChunkEnd(N - 1, B, T) = T
       /\ N = 0 => T = 0
       /\ \A r \in {0, T \div 2, T - 1} \cap 0..(T - 1) :
            Cardinality({i \in 0..(N - 1) :
                           ChunkStart(i, B) <= r /\ r < ChunkEnd(i, B, T)}) = 1

\* C28 witness: a plan of several chunks whose last chunk is shorter than the
\* batch size.
C28_Witness ==
  /\ plan.pc = "planned" /\ plan.total_batches > 3
  /\ ChunkEnd(plan.total_batches - 1, plan.batch_size, plan.total_records)
       - ChunkStart(plan.total_batches - 1, plan.batch_size) < plan.batch_size

\* C29 as claimed: an attempt of the chunk activity that is still running is
\* not failed by the heartbeat timeout before its start-to-close timeout has
\* elapsed.
C29_LiveChunkNotTimedOut ==
  (activity.step = "chunk" /\ activity.pc = "timed_out"
     /\ activity.reason = "heartbeat")
    => activity.elapsed >= StartToClose("chunk")

\* The number of chunk executions that a finished workflow has logged.
ChunksLogged(w) ==
  Cardinality({n \in 1..Len(w.log) : w.log[n].step = "chunk"})

\* A process_job run has been ended by an exception.
StepFailed == \E t \in BagToSet(tasks) : t.pc = "crashed"

\* C30: under weak fairness of the orchestrator steps and with no step
\* failing, a start that was accepted for an UPLOADED job is followed by the
\* job's status COMPLETED; a run that has finished has executed exactly its
\* N chunks, each once, and none when the file has no rows.
C30_StartLeadsToCompleted ==
  /\ [](\A k \in 1..Len(workflows) :
          workflows[k].pc = "done" =>
            /\ ChunksLogged(workflows[k])
                 = TotalBatches(FileRows(csv[workflows[k].job]),
                                workflows[k].info.batch_size)
            /\ \A c \in 0..(workflows[k].info.total_batches - 1) :
                 \E n \in 1..Len(workflows[k].log) :
                   workflows[k].log[n] = [step |-> "chunk", index |-> c]
            /\ FileRows(csv[workflows[k].job]) = 0 =>
                 workflows[k].log = <<[step |-> "init", index |-> 0],
                                      [step |-> "complete", index |-> 0]>>)
  /\ [](\A t \in BagToSet(tasks) :
          t.pc = "done" => t.i = TotalBatches(t.total, BATCH) * BATCH)
  /\ \A id \in JobIds :
       (reply.id = id /\ reply.result = "started" /\ reply.seen = "UPLOADED")
         ~> (jobs[id].status = "COMPLETED" \/ StepFailed)

\* C30 witness: the workflow of a file of three chunks has finished with the
\* job COMPLETED.
C30_Witness ==
  \E k \in 1..Len(workflows) :
    /\ workflows[k].pc = "done" /\ ChunksLogged(workflows[k]) = 3
    /\ jobs[workflows[k].job].status = "COMPLETED"
    /\ reply.result = "started" /\ reply.seen = "UPLOADED"

\* C31 as claimed: when one attempt of init_job_activity has committed and
\* its result was lost, and no other attempt has been made to fail, the run
\* does not end failed in its init step with the job left RUNNING.
C31_InitRetryIsSafe ==
  \A k \in 1..Len(workflows) :
    (workflows[k].pc = "failed" /\ workflows[k].log = <<>>
       /\ workflows[k].committed /\ faults = 1)
      => jobs[workflows[k].job].status # "RUNNING"

\* The number of Transaction rows of a job among the first n committed inserts.
RECURSIVE RowCount(_, _)
RowCount(id, n) ==
  IF n = 0 THEN 0
  ELSE RowCount(id, n - 1)
         + (IF txns[n].job_id = id THEN txns[n].last - txns[n].first ELSE 0)

\* C32 as claimed: in every committed state the number of stored Transaction
\* rows of a job equals the job's processed_records and is at most its
\* total_records.
C32_RowsMatchProcessed ==
  \A id \in JobIds :
    /\ RowCount(id, Len(txns)) = jobs[id].processed_records
    /\ RowCount(id, Len(txns)) <= jobs[id].total_records

\* C33 as claimed: after any connect, disconnect and broadcast_to_user calls
\* no user of the registry maps to an empty list: get_all_connected_users
\* returns exactly the users whose get_connection_count is at least 1.
C33_NoEmptyList ==
  /\ \A u \in DOMAIN active_connections : active_connections[u] # <<>>
  /\ GetAllConnectedUsers = {u \in Users : GetConnectionCount(u) >= 1}

====
